---- MODULE Spec2Model ----
(***************************************************************************)
(* Model of the AC Brotherhood save-game tools:                            *)
(*   cape_unlocker.py          parse_sav_blocks, unlock_capes              *)
(*   compact_format_parser.py  CompactFormatParser                         *)
(*                                                                         *)
(* Bytes are the integers 0..255 and a bytes object is a sequence of them. *)
(* Python offsets are 0-based; At and Slice translate them to the 1-based  *)
(* sequences of TLA+.                                                      *)
(***************************************************************************)
EXTENDS Integers, Sequences, FiniteSets, TLC

VARIABLES
    pc,          \* position of the running operation
    sav_data,    \* bytes of the input SAV file
    truth,       \* how sav_data was built (history variable, never read by the code)
    parsed,      \* what parse_sav_blocks(sav_data) returned or raised
    mem,         \* local variables of unlock_capes
    out_file,    \* the file at output_path
    ret,         \* what unlock_capes returned or raised
    stdout,      \* the messages unlock_capes printed
    run,         \* number of the running unlock_capes call
    first_out,   \* bytes the first call wrote (history variable)
    raw_data,    \* the buffer handed to CompactFormatParser.parse
    stats,       \* self.stats of the CompactFormatParser in use
    parser,      \* number of the CompactFormatParser in use
    frame,       \* local variables of the running parse call
    results      \* what the parse calls so far returned, with self.stats at the return

-----------------------------------------------------------------------------
(* Bounds of the model *)

\* longest filler run placed before each region header of a built Block 3
MaxFill == 1

\* largest declared payload size of a built region
MaxRegionSize == 2

\* most bytes of decompressed Block 4 after the second cape flag
MaxTail == 1

\* unlock_capes calls in a row, each on the file the one before wrote
MaxRuns == 2

\* most records in a buffer handed to the decoder
MaxPieces == 2

\* most bytes cut off the end of a buffer handed to the decoder
MaxCut == 2

\* parse calls in a row on one buffer
MaxCalls == 2

-----------------------------------------------------------------------------
(* Python bytes *)

Min(a, b) == IF a < b THEN a ELSE b

\* b'\xNN' * n
Rep(n, b) == [i \in 1..n |-> b]

\* data[i]
At(data, i) == data[i + 1]

\* data[a:b] for 0 <= a, 0 <= b: out-of-range bounds are clamped, never an error
Slice(data, a, b) ==
    LET lo == Min(a, Len(data))
        hi == Min(b, Len(data))
    IN  IF hi <= lo THEN <<>> ELSE SubSeq(data, lo + 1, hi)

\* data[a:]
SliceFrom(data, a) == Slice(data, a, Len(data))

\* struct.unpack('<H', b)[0]
unpack_H(b) == b[1] + 256 * b[2]

\* struct.unpack('<I', b)[0] as two 16-bit halves (the value is hi * 65536 + lo);
\* the halves keep values of 2^31 and more representable
unpack_I(b) == [lo |-> b[1] + 256 * b[2], hi |-> b[3] + 256 * b[4]]

\* the integer a 32-bit value stands for (below 2^31)
U32Int(u) == u.hi * 65536 + u.lo

\* struct.unpack('<I', b3 + b'\x00')[0] for a 3-byte b3: a 24-bit little-endian size
unpack_size24(b3) == b3[1] + 256 * b3[2] + 65536 * b3[3]

\* struct.pack('<I', n) for 0 <= n < 2^31
pack_I(n) == << n % 256, (n \div 256) % 256, (n \div 65536) % 256, (n \div 16777216) % 256 >>

-----------------------------------------------------------------------------
(* parse_sav_blocks *)

\* size of a block header
HEADER_SIZE == 44

\* offset of the compressed-size field in a block header
SIZE_FIELD == 32

\* exclusive upper limit of a region's declared size
REGION_SIZE_LIMIT == 50000

\* bytes of a region header
REGION_HEADER == 8

\* bytes of the gap after a region's data
REGION_GAP == 5

\* bytes 4..7 of a region header
REGION_MAGIC == << 0, 0, 128, 0 >>

block1_size_field(data) == Slice(data, SIZE_FIELD, SIZE_FIELD + 4)

block1_compressed_size(data) == U32Int(unpack_I(block1_size_field(data)))

block2_header_offset(data) == HEADER_SIZE + block1_compressed_size(data)

block2_size_field(data) ==
    Slice(data, block2_header_offset(data) + SIZE_FIELD, block2_header_offset(data) + SIZE_FIELD + 4)

block2_compressed_size(data) == U32Int(unpack_I(block2_size_field(data)))

block2_data_offset(data) == block2_header_offset(data) + HEADER_SIZE

block3_offset(data) == block2_data_offset(data) + block2_compressed_size(data)

IsRegionSignatureBad(data, search_pos) == At(data, search_pos) = 1

\* the test of lines 55-56
IsRegionSignature(data, search_pos) ==
    /\ At(data, search_pos) = 1
    /\ Slice(data, search_pos + 4, search_pos + 8) = REGION_MAGIC

region_size(data, search_pos) == unpack_size24(Slice(data, search_pos + 1, search_pos + 4))

\* "Move past header + data + 5-byte gap"
NextSearchPosBad(search_pos, size) == search_pos + REGION_HEADER + size + REGION_GAP + 1

NextSearchPos(search_pos, size) == search_pos + REGION_HEADER + size + REGION_GAP

\* the positions from search_pos on at which the while loop of lines 54-63
\* would stop: below len(data) - 8, passing the tests of lines 55-59
RegionHeadersFrom(data, search_pos) ==
    { q \in search_pos..(Len(data) - 9) :
        /\ IsRegionSignature(data, q)
        /\ 0 < region_size(data, q)
        /\ region_size(data, q) < REGION_SIZE_LIMIT }

\* the for/while loops of lines 53-63: at most 4 regions, the cursor shared by
\* the four searches; a search stops at the first position that passes the
\* tests, and when the cursor reaches len(data) - 8 no search finds anything
RECURSIVE FindRegions(_, _, _)
FindRegions(data, search_pos, regions) ==
    IF Len(regions) = 4 \/ RegionHeadersFrom(data, search_pos) = {}
    THEN regions
    ELSE LET q == CHOOSE q \in RegionHeadersFrom(data, search_pos) :
                     \A r \in RegionHeadersFrom(data, search_pos) : q <= r
         IN  FindRegions(data,
                         NextSearchPos(q, region_size(data, q)),
                         Append(regions, << q, region_size(data, q) >>))

block3_regions(data) == FindRegions(data, block3_offset(data), <<>>)

Block5OffsetBad(b4off, b4size) == b4off + b4size + 1

Block5Offset(b4off, b4size) == b4off + b4size

\* the blocks of a file in which four regions were found (lines 66-94)
BlocksOf(data, regions) ==
    LET region4_offset == regions[4][1]
        block4_compressed_size == regions[4][2]
        block3_end == region4_offset + REGION_HEADER + REGION_GAP
        block3_size == block3_end - block3_offset(data)
        block4_offset == block3_offset(data) + block3_size
        block5_offset == Block5Offset(block4_offset, block4_compressed_size)
    IN  [ status |-> "ok",
          block1_compressed |-> Slice(data, HEADER_SIZE, HEADER_SIZE + block1_compressed_size(data)),
          block2_compressed |-> Slice(data, block2_data_offset(data),
                                      block2_data_offset(data) + block2_compressed_size(data)),
          block3_raw |-> Slice(data, block3_offset(data), block3_offset(data) + block3_size),
          block4_compressed |-> Slice(data, block4_offset, block4_offset + block4_compressed_size),
          block5_raw |-> SliceFrom(data, block5_offset),
          region4_offset_in_block3 |-> region4_offset - block3_offset(data),
          found |-> Len(regions),
          regions |-> regions ]

\* struct.error: unpack of a slice the end of the buffer cut short
StructError == [ status |-> "struct.error", found |-> 0, regions |-> <<>> ]

RegionsErrorBad(regions) == [ status |-> "ValueError", found |-> 4 - Len(regions), regions |-> regions ]

\* ValueError(f"Could not parse Block 3 headers, found {n} regions")
RegionsError(regions) == [ status |-> "ValueError", found |-> Len(regions), regions |-> regions ]

parse_sav_blocks(data) ==
    IF Len(block1_size_field(data)) # 4 THEN StructError
    ELSE IF Len(block2_size_field(data)) # 4 THEN StructError
    ELSE IF Len(block3_regions(data)) >= 4
         THEN BlocksOf(data, block3_regions(data))
         ELSE RegionsError(block3_regions(data))

-----------------------------------------------------------------------------
(* Input files of the parse: a container built from its parts, with a flaw *)

\* a 44-byte block header declaring `size` compressed bytes
BuildHeader(size) == Rep(SIZE_FIELD, 0) \o pack_I(size) \o Rep(HEADER_SIZE - SIZE_FIELD - 4, 0)

\* [01] [size 3B] [00 00 80 00]
BuildRegionHeader(size) == << 1, size % 256, (size \div 256) % 256, (size \div 65536) % 256 >> \o REGION_MAGIC

\* [00] [checksum 4B]
BuildGap == << 0, 17, 34, 51, 68 >>

FillKinds == { "zero", "one", "sig" }

\* n filler bytes; kind "sig" ends the filler with a byte pattern that passes
\* the region test (a header declaring size 1)
BuildFiller(kind, n) ==
    IF n = 0 THEN <<>>
    ELSE CASE kind = "zero" -> Rep(n, 0)
           [] kind = "one" -> Rep(n, 1)
           [] kind = "sig" -> Rep(n - 1, 0) \o BuildRegionHeader(1)

Flaws == { "none", "b1_size", "b2_size", "r4_size", "cut_hdr1", "cut_hdr2", "cut_gap",
           "few3", "few1" }

\* the payload of region i: plain bytes, or (embed) a pattern that passes the region test
RegionPayload(p, i) ==
    IF p.embed /\ i = 2 THEN BuildRegionHeader(1) ELSE Rep(1 + ((p.rs + i) % MaxRegionSize), 171)

RegionCount(p) == CASE p.flaw = "few3" -> 3 [] p.flaw = "few1" -> 1 [] OTHER -> 4

Block5Payload == << 238, 238 >>

\* the size region 4 declares: Block 4's length, or more than the file holds
Region4Declared(p) ==
    IF p.flaw = "r4_size" THEN Len(p.b4) + Len(Block5Payload) + 3 ELSE Len(p.b4)

\* Block 3 up to and including region i's header (i <= 3: and its payload and gap)
RECURSIVE BuildRegions(_, _)
BuildRegions(p, i) ==
    IF i = 0 THEN <<>>
    ELSE BuildRegions(p, i - 1) \o BuildFiller(p.fk, p.fill[i])
         \o (IF i = 4
             THEN BuildRegionHeader(Region4Declared(p)) \o p.gap4
             ELSE BuildRegionHeader(Len(RegionPayload(p, i))) \o RegionPayload(p, i) \o BuildGap)

\* offset in the file of Block 3
BuiltBlock3Offset(p) == HEADER_SIZE + Len(p.b1) + HEADER_SIZE + Len(p.b2)

\* offset in the file of region i's header
BuiltRegionOffset(p, i) ==
    BuiltBlock3Offset(p) + Len(BuildRegions(p, i - 1)) + Len(BuildFiller(p.fk, p.fill[i]))

\* offsets in the file of the filler bytes before region i's header
BuiltFillerOffsets(p, i) ==
    LET start == BuiltBlock3Offset(p) + Len(BuildRegions(p, i - 1))
    IN  { start + k : k \in 0..(Len(BuildFiller(p.fk, p.fill[i])) - 1) }

BuildWhole(p) ==
    BuildHeader(IF p.flaw = "b1_size" THEN 4096 ELSE Len(p.b1)) \o p.b1
    \o BuildHeader(IF p.flaw = "b2_size" THEN 4096 ELSE Len(p.b2)) \o p.b2
    \o BuildRegions(p, RegionCount(p))
    \o (IF RegionCount(p) = 4 THEN p.b4 ELSE <<>>)
    \o Block5Payload

BuildSav(p) ==
    CASE p.flaw = "cut_hdr1" -> Slice(BuildWhole(p), 0, SIZE_FIELD + 2)
      [] p.flaw = "cut_hdr2" -> Slice(BuildWhole(p), 0, HEADER_SIZE + Len(p.b1) + SIZE_FIELD + 3)
      [] p.flaw = "cut_gap" -> Slice(BuildWhole(p), 0, BuiltRegionOffset(p, 4) + REGION_HEADER + 2)
      [] OTHER -> BuildWhole(p)

BuildParams ==
    [ flaw : Flaws, b1 : { <<>>, << 170, 170 >> }, b2 : { << 187 >> },
      b4 : { Rep(n, 204) : n \in 1..MaxRegionSize }, gap4 : { BuildGap },
      rs : 1..MaxRegionSize, fill : [1..4 -> 0..MaxFill], fk : FillKinds, embed : BOOLEAN ]

TruthOf(p) ==
    [ p |-> p,
      block3_offset |-> BuiltBlock3Offset(p),
      regions |-> [ i \in 1..RegionCount(p) |->
                      << BuiltRegionOffset(p, i),
                         IF i = 4 THEN Region4Declared(p) ELSE Len(RegionPayload(p, i)) >> ],
      filler |-> UNION { BuiltFillerOffsets(p, i) : i \in 1..RegionCount(p) } ]


-----------------------------------------------------------------------------
(* Decompressed payloads.  A decompressed block is tens of thousands of    *)
(* bytes long (the cape flags lie at 0x50E0 and 0x50F2), so it is held as  *)
(* its list of runs << [b |-> byte, n |-> count], ... >> with n >= 1 and   *)
(* neighbouring runs of different bytes: one run list per byte string.     *)

\* the two halves of a list
FirstHalf(s) == SubSeq(s, 1, Len(s) \div 2)

SecondHalf(s) == SubSeq(s, Len(s) \div 2 + 1, Len(s))

\* the run list of l + r, for run lists l and r
JoinRuns(l, r) ==
    IF l # <<>> /\ r # <<>> /\ l[Len(l)].b = r[1].b
    THEN SubSeq(l, 1, Len(l) - 1) \o << [b |-> r[1].b, n |-> l[Len(l)].n + r[1].n] >> \o Tail(r)
    ELSE l \o r

\* the run list of the byte string a list of (byte, count) pairs stands for:
\* empty pairs dropped, neighbours of the same byte merged
RECURSIVE Normalize(_)
Normalize(runs) ==
    IF Len(runs) <= 1
    THEN (IF runs = <<>> \/ runs[1].n = 0 THEN <<>> ELSE runs)
    ELSE JoinRuns(Normalize(FirstHalf(runs)), Normalize(SecondHalf(runs)))

\* len(payload)
RECURSIVE RunLen(_)
RunLen(runs) ==
    IF runs = <<>> THEN 0
    ELSE IF Len(runs) = 1 THEN runs[1].n
    ELSE RunLen(FirstHalf(runs)) + RunLen(SecondHalf(runs))

\* payload[i], for 0 <= i < len(payload)
RECURSIVE RunAt(_, _)
RunAt(runs, i) == IF i < Head(runs).n THEN Head(runs).b ELSE RunAt(Tail(runs), i - Head(runs).n)

RECURSIVE Overwrite(_, _, _)
Overwrite(runs, i, v) ==
    LET h == Head(runs)
    IN  IF i < h.n
        THEN << [b |-> h.b, n |-> i], [b |-> v, n |-> 1], [b |-> h.b, n |-> h.n - i - 1] >> \o Tail(runs)
        ELSE << h >> \o Overwrite(Tail(runs), i - h.n, v)

\* payload[i] = v, for 0 <= i < len(payload)
RunSet(runs, i, v) == Normalize(Overwrite(runs, i, v))

-----------------------------------------------------------------------------
(* The collaborators of unlock_capes that are not part of the sources:     *)
(* the LZSS codec, the checksum and the header builders.  The codec is     *)
(* modelled by a run-length code of 3-byte tokens [byte, count lo, count   *)
(* hi]: decompress fails on a malformed stream, compress is deterministic, *)
(* and a stream need not be the one compress would produce, so             *)
(* recompression can change a block's length in either direction.          *)

Tokens(stream) ==
    [ k \in 1..(Len(stream) \div 3) |->
        [ b |-> stream[3 * k - 2], n |-> stream[3 * k - 1] + 256 * stream[3 * k] ] ]

\* decompress raises on this stream
CorruptStream(stream) ==
    \/ Len(stream) % 3 # 0
    \/ \E k \in 1..(Len(stream) \div 3) : Tokens(stream)[k].n = 0

\* LZSSDecompressor().decompress(stream), for a stream that is not corrupt
decompress(stream) == Normalize(Tokens(stream))

\* compress_lzss_lazy(payload)[0]
RECURSIVE compress_lzss_lazy(_)
compress_lzss_lazy(runs) ==
    IF runs = <<>> THEN <<>>
    ELSE IF Len(runs) = 1
         THEN LET h == runs[1]
              IN  IF h.n > 65535
                  THEN << h.b, 255, 255 >> \o compress_lzss_lazy(<< [b |-> h.b, n |-> h.n - 65535] >>)
                  ELSE << h.b, h.n % 256, h.n \div 256 >>
         ELSE compress_lzss_lazy(FirstHalf(runs)) \o compress_lzss_lazy(SecondHalf(runs))

\* the two sums a and b of Adler-32 after `data`, from the sums before it;
\* the sums after the first half are computed (they are never negative)
\* before the second half is entered
RECURSIVE AdlerFold(_, _)
AdlerFold(data, sums) ==
    IF data = <<>> THEN sums
    ELSE IF Len(data) = 1
         THEN LET a == (sums.lo + data[1]) % 65521
              IN  [lo |-> a, hi |-> (sums.hi + a) % 65521]
         ELSE LET first == AdlerFold(FirstHalf(data), sums)
              IN  IF first.lo >= 0 THEN AdlerFold(SecondHalf(data), first) ELSE first

AdlerSums(data, a, b) == AdlerFold(data, [lo |-> a, hi |-> b])

\* adler32(data), as the 32-bit value (b << 16) | a
adler32(data) == AdlerSums(data, 1, 0)

\* build_block1_header(compressed, decompressed_size): 44 bytes with the
\* compressed size where parse_sav_blocks reads it
build_block1_header(compressed, decompressed_size) ==
    Rep(SIZE_FIELD, 0) \o pack_I(Len(compressed)) \o pack_I(decompressed_size) \o Rep(4, 0)

\* build_block2_header(compressed, decompressed_size, remaining)
build_block2_header(compressed, decompressed_size, remaining) ==
    Rep(SIZE_FIELD, 0) \o pack_I(Len(compressed)) \o pack_I(decompressed_size) \o pack_I(remaining)

-----------------------------------------------------------------------------
(* unlock_capes *)

CAPE1_OFFSET == 20704

CAPE2_OFFSET == 20722

\* struct.pack('<I', v) of a 32-bit value held as two halves
pack_U32(u) == << u.lo % 256, u.lo \div 256, u.hi % 256, u.hi \div 256 >>

\* buf[a:b] = new on a bytearray
SetSliceBad(buf, a, b, new) == Slice(buf, 0, a) \o new \o SliceFrom(buf, a)

SetSlice(buf, a, b, new) == Slice(buf, 0, a) \o new \o SliceFrom(buf, b)

\* struct.pack('<I', new_size)[:3]
SizeBytesBad(new_size) == << (new_size \div 65536) % 256, (new_size \div 256) % 256, new_size % 256 >>

SizeBytes(new_size) == Slice(pack_I(new_size), 0, 3)

\* lines 163-170: Region 4's size field after the patch
PatchRegion4Size(block3_raw, region4_offset, new_size) ==
    LET old_size == unpack_size24(Slice(block3_raw, region4_offset + 1, region4_offset + 4))
    IN  IF old_size # new_size
        THEN SetSlice(block3_raw, region4_offset + 1, region4_offset + 4, SizeBytes(new_size))
        ELSE block3_raw

PatchRegion4ChecksumBad(block3_raw, region4_offset, new_checksum) == block3_raw

\* lines 174-179: Region 4's checksum field after the patch
PatchRegion4Checksum(block3_raw, region4_offset, new_checksum) ==
    LET old_checksum == unpack_I(Slice(block3_raw, region4_offset + 9, region4_offset + 13))
    IN  IF old_checksum # new_checksum
        THEN SetSlice(block3_raw, region4_offset + 9, region4_offset + 13, pack_U32(new_checksum))
        ELSE block3_raw

RemainingBad(b2, b3, b4, b5) == HEADER_SIZE + Len(b2) + Len(b3) + Len(b4)

\* lines 182-187: remaining_after_block2_header
Remaining(b2, b3, b4, b5) == HEADER_SIZE + Len(b2) + Len(b3) + Len(b4) + Len(b5)

\* an assembly that keeps the input's compressed Blocks 1 and 2
AssembleBad(m) ==
    build_block1_header(m.block1_compressed, RunLen(m.block1_decompressed))
    \o m.block1_compressed
    \o build_block2_header(m.block2_compressed, RunLen(m.block2_decompressed),
                           m.remaining_after_block2_header)
    \o m.block2_compressed
    \o m.block3_raw
    \o m.block4_recompressed
    \o m.block5_raw

\* lines 195-202: the output file
Assemble(m) ==
    build_block1_header(m.block1_recompressed, RunLen(m.block1_decompressed))
    \o m.block1_recompressed
    \o build_block2_header(m.block2_recompressed, RunLen(m.block2_decompressed),
                           m.remaining_after_block2_header)
    \o m.block2_recompressed
    \o m.block3_raw
    \o m.block4_recompressed
    \o m.block5_raw

\* no file at output_path
NoFile == [ written |-> FALSE, bytes |-> <<>> ]

\* the locals before they are assigned
MemInit ==
    [ block1_compressed |-> <<>>, block2_compressed |-> <<>>, block3_raw |-> <<>>,
      block4_compressed |-> <<>>, block5_raw |-> <<>>, region4_offset |-> 0,
      block1_decompressed |-> <<>>, block2_decompressed |-> <<>>, block4_decompressed |-> <<>>,
      block4_data |-> <<>>, cape1_current |-> 0, cape2_current |-> 0,
      block1_recompressed |-> <<>>, block2_recompressed |-> <<>>, block4_recompressed |-> <<>>,
      remaining_after_block2_header |-> 0 ]

-----------------------------------------------------------------------------
(* Input files of unlock_capes: containers whose Blocks 1, 2 and 4 are     *)
(* codec streams                                                          *)

\* decompressed Block 4 by fields: bytes before flag 1, flag 1, bytes between
\* the flags, flag 2, tail
Block4Fields(c1, c2, tail) ==
    << [b |-> 0, n |-> CAPE1_OFFSET], [b |-> c1, n |-> 1],
       [b |-> 0, n |-> CAPE2_OFFSET - CAPE1_OFFSET - 1], [b |-> c2, n |-> 1],
       [b |-> 0, n |-> tail] >>

\* one token per run, zero-length runs left out
RECURSIVE TokensOf(_)
TokensOf(runs) ==
    IF runs = <<>> THEN <<>>
    ELSE (IF Head(runs).n = 0 THEN <<>>
          ELSE << Head(runs).b, Head(runs).n % 256, Head(runs).n \div 256 >>) \o TokensOf(Tail(runs))

Encodings == { "canon", "fields", "long", "short", "corrupt" }

\* a compressed Block 4: what compress would produce (canon), one token per
\* field (fields), the same with the first run in two tokens (long), a
\* payload that ends before the second flag (short), a cut stream (corrupt)
Block4Stream(c1, c2, tail, enc) ==
    CASE enc = "canon" -> compress_lzss_lazy(Normalize(Block4Fields(c1, c2, tail)))
      [] enc = "fields" -> TokensOf(Block4Fields(c1, c2, tail))
      [] enc = "long" -> << 0, 0, 64 >> \o TokensOf(<< [b |-> 0, n |-> CAPE1_OFFSET - 16384] >>
                                                   \o Tail(Block4Fields(c1, c2, tail)))
      [] enc = "short" -> TokensOf(<< [b |-> 0, n |-> CAPE1_OFFSET], [b |-> c1, n |-> 1],
                                      [b |-> 0, n |-> CAPE2_OFFSET - CAPE1_OFFSET - 1] >>)
      [] enc = "corrupt" -> Slice(TokensOf(Block4Fields(c1, c2, tail)), 0, 5)

\* Block 4 as unlock_capes recompresses it
PatchedBlock4(c1, c2, tail) == compress_lzss_lazy(Normalize(Block4Fields(1, 1, tail)))

ChecksumKinds == { "right", "zero", "new" }

\* Region 4's gap [00] [checksum 4B]: the checksum of Block 4, zero, or the
\* checksum the patched Block 4 will have
Gap4(c1, c2, tail, enc, chk) ==
    CASE chk = "right" -> << 0 >> \o pack_U32(adler32(Block4Stream(c1, c2, tail, enc)))
      [] chk = "zero" -> << 0, 0, 0, 0, 0 >>
      [] chk = "new" -> << 0 >> \o pack_U32(adler32(PatchedBlock4(c1, c2, tail)))

PatchFlaws == { "none", "few3", "cut_hdr2", "r4_size", "cut_gap" }

Block1Streams == { << 170, 3, 0 >>, << 170, 1, 0, 170, 2, 0 >>, << 170, 3 >> }

Block2Streams == { << 187, 2, 0 >>, << 187, 1, 0, 187, 1, 0 >> }

PatchParams ==
    { [ flaw |-> f, b1 |-> b1, b2 |-> b2, b4 |-> Block4Stream(c1, c2, t, e),
        gap4 |-> Gap4(c1, c2, t, e, k), rs |-> 1, fill |-> [i \in 1..4 |-> 0],
        fk |-> "zero", embed |-> FALSE, c1 |-> c1, c2 |-> c2, tail |-> t, enc |-> e, chk |-> k ] :
      f \in PatchFlaws, b1 \in Block1Streams, b2 \in Block2Streams,
      c1 \in {0, 1}, c2 \in {0, 1}, t \in 0..MaxTail, e \in Encodings, k \in ChecksumKinds }

\* the most tokens a compressed Block 4 can have in a region that parses:
\* a region's declared size is below REGION_SIZE_LIMIT
LongTokenCount == (REGION_SIZE_LIMIT - 1) \div 3

\* a compressed Block 4 of that many tokens: zeros up to and including the
\* second cape flag, then single bytes 3, 2, 3, 2, ...; it is what compress
\* produces for its payload
LongBlock4Stream ==
    [ i \in 1..(3 * LongTokenCount) |->
        IF i <= 3
        THEN << 0, (CAPE2_OFFSET + 1) % 256, (CAPE2_OFFSET + 1) \div 256 >>[i]
        ELSE CASE i % 3 = 1 -> 2 + ((i \div 3) % 2)
               [] i % 3 = 2 -> 1
               [] OTHER -> 0 ]

\* a well-formed input file with that Block 4, both capes locked
LongParams ==
    { [ flaw |-> "none", b1 |-> << 170, 3, 0 >>, b2 |-> << 187, 2, 0 >>,
        b4 |-> LongBlock4Stream,
        gap4 |-> << 0 >> \o pack_U32(adler32(LongBlock4Stream)),
        rs |-> 1, fill |-> [i \in 1..4 |-> 0], fk |-> "zero", embed |-> FALSE,
        c1 |-> 0, c2 |-> 0, tail |-> 0, enc |-> "canon", chk |-> "right" ] }

-----------------------------------------------------------------------------
(* compact_format_parser.py: values and records                            *)

\* Python's None
None == [ none |-> TRUE ]

\* a Python int below 2^31
PyInt(n) == [ int |-> n ]

\* a Python bytes value
PyBytes(b) == [ bytes |-> b ]

MARKER_TRUE == 109

MARKER_FALSE == 219

MARKER_CD == 205

\* the keys of TABLE_ID_TO_TYPE: 0x00..0x67, 0x95, 0xDB, 0xE1, 0xFB
TABLE_ID_TO_TYPE == (0..103) \cup {149, 219, 225, 251}

\* the 2-byte prefix b0 b1 as the number the source writes 0xb0b1
Prefix(b0, b1) == b0 * 256 + b1

\* CompactHeader.parse(data, offset)
CompactHeader_parse(data, offset) ==
    LET raw == Slice(data, offset, offset + 8)
    IN  IF Len(raw) < 4
        THEN [ status |-> "IndexError" ]
        ELSE IF Len(Slice(raw, 4, 8)) # 4
        THEN [ status |-> "struct.error" ]
        ELSE [ status |-> "ok",
               version |-> At(raw, 0),
               data_size |-> At(raw, 1) + 256 * At(raw, 2) + 65536 * At(raw, 3),
               flags |-> unpack_I(Slice(raw, 4, 8)),
               raw_bytes |-> raw ]

\* TableRef(offset, table_id, property_id) with __post_init__'s type lookup
TableRef(offset, table_id, property_id) ==
    [ offset |-> offset, table_id |-> table_id, property_id |-> property_id,
      type_known |-> table_id \in TABLE_ID_TO_TYPE ]

\* ExtendedValue(offset, subtype, value, raw_bytes)
ExtendedValue(offset, subtype, value, raw_bytes) ==
    [ offset |-> offset, subtype |-> subtype, value |-> value, raw_bytes |-> raw_bytes ]

\* ArrayElement(offset, element_type, value, raw_bytes)
ArrayElement(offset, element_type, value, raw_bytes) ==
    [ offset |-> offset, element_type |-> element_type, value |-> value,
      raw_bytes |-> raw_bytes ]

\* FixedValue(offset, prefix, value, raw_bytes)
FixedValue(offset, prefix, value, raw_bytes) ==
    [ offset |-> offset, prefix |-> prefix, value |-> value, raw_bytes |-> raw_bytes ]

\* ParsedEntry(offset, prefix, prefix_type, data, size)
ParsedEntry(offset, prefix, prefix_type, data, size) ==
    [ offset |-> offset, prefix |-> prefix, prefix_type |-> prefix_type,
      data |-> data, size |-> size ]

\* self.stats as __init__ sets it
InitStats ==
    [ table_refs |-> 0, extended_1c04 |-> 0, array_173c |-> 0, value_1500 |-> 0,
      value_1200 |-> 0, fixed32_0502 |-> 0, varint_1405 |-> 0, type_ref_1006 |-> 0,
      prefix_1809 |-> 0, prefix_1907 |-> 0, prefix_1902 |-> 0, prefix_16e1 |-> 0,
      unknown |-> 0,
      markers |-> [ k \in {"0x6D", "0xDB", "0xCD"} |-> 0 ] ]

CountBad(st, stat) == st

\* self.stats[stat] += 1, or self.stats['markers'][stat] += 1, or nothing
Count(st, stat) ==
    IF stat = "none" THEN st
    ELSE IF stat \in DOMAIN st.markers
    THEN [ st EXCEPT !.markers[stat] = @ + 1 ]
    ELSE [ st EXCEPT ![stat] = @ + 1 ]

ReturnsBad(entry, consumed, stat) ==
    [ raised |-> "none", entry |-> entry, consumed |-> 0, stat |-> stat ]

\* `return entry, consumed` of an entry handler that did self.stats[stat] += 1
Returns(entry, consumed, stat) ==
    [ raised |-> "none", entry |-> entry, consumed |-> consumed, stat |-> stat ]

\* `return None, consumed`
ReturnsNone(consumed) == Returns(None, consumed, "none")

\* an exception leaves the handler
Raises(kind) == [ raised |-> kind, entry |-> None, consumed |-> 0, stat |-> "none" ]

-----------------------------------------------------------------------------
(* compact_format_parser.py: the entry handlers                            *)

\* _parse_table_ref
_parse_table_ref(data, pos) ==
    IF pos + 4 > Len(data) THEN ReturnsNone(0)
    ELSE Returns(ParsedEntry(pos, Prefix(8, 3), "TABLE_REF",
                             TableRef(pos, At(data, pos + 2), At(data, pos + 3)), 4),
                 4, "table_refs")

\* the bytes that end a variable-length EXTENDED_1C value
ExtendedStopBytes == {8, 28, 23, 21, 18, 20, 16, 24, 25, 12}
                        \cup {MARKER_TRUE, MARKER_FALSE, MARKER_CD}

ExtendedEndBad(data, pos, end) == pos + 8

\* "Read until we hit another prefix or marker": the loop of lines 505-512
RECURSIVE ExtendedEnd(_, _, _)
ExtendedEnd(data, pos, end) ==
    IF end < Len(data) /\ end < pos + 8 /\ At(data, end) \notin ExtendedStopBytes
    THEN ExtendedEnd(data, pos, end + 1)
    ELSE end

\* _parse_extended_1c
_parse_extended_1c(data, pos) ==
    IF pos + 3 > Len(data) THEN ReturnsNone(0)
    ELSE
    LET subtype == At(data, pos + 2)
        two == IF pos + 5 <= Len(data)
               THEN [ value |-> PyInt(unpack_H(Slice(data, pos + 3, pos + 5))), consumed |-> 5 ]
               ELSE [ value |-> None, consumed |-> 3 ]
        end == ExtendedEnd(data, pos, pos + 3)
        r == IF subtype = 8
             THEN IF pos + 4 <= Len(data)
                  THEN [ value |-> PyInt(At(data, pos + 3)), consumed |-> 4 ]
                  ELSE [ value |-> None, consumed |-> 3 ]
             ELSE IF subtype \in {10, 11} THEN two
             ELSE IF subtype \in {36, 37, 33, 35}
             THEN [ value |-> PyBytes(Slice(data, pos + 3, end)), consumed |-> end - pos ]
             ELSE two
    IN  Returns(ParsedEntry(pos, Prefix(28, 4), "EXTENDED_1C",
                            ExtendedValue(pos, subtype, r.value,
                                          Slice(data, pos, pos + r.consumed)),
                            r.consumed),
                r.consumed, "extended_1c04")

\* _parse_array_element
_parse_array_element(data, pos) ==
    IF pos + 3 > Len(data) THEN ReturnsNone(0)
    ELSE
    LET elem_type == At(data, pos + 2)
        two == IF pos + 5 <= Len(data)
               THEN [ value |-> PyInt(unpack_H(Slice(data, pos + 3, pos + 5))), consumed |-> 5 ]
               ELSE [ value |-> None, consumed |-> 3 ]
        r == IF elem_type = 0
             THEN IF pos + 6 <= Len(data)
                  THEN [ value |-> unpack_I(Slice(data, pos + 3, pos + 7)), consumed |-> 7 ]
                  ELSE [ value |-> None, consumed |-> 3 ]
             ELSE IF elem_type = 8
             THEN IF pos + 4 <= Len(data)
                  THEN [ value |-> PyInt(At(data, pos + 3)), consumed |-> 4 ]
                  ELSE [ value |-> None, consumed |-> 3 ]
             ELSE two
    IN  \* struct.unpack('<I', ...) of fewer than 4 bytes
        IF elem_type = 0 /\ pos + 6 <= Len(data) /\ Len(Slice(data, pos + 3, pos + 7)) # 4
        THEN Raises("struct.error")
        ELSE Returns(ParsedEntry(pos, Prefix(23, 60), "ARRAY_ELEM",
                                 ArrayElement(pos, elem_type, r.value,
                                              Slice(data, pos, pos + r.consumed)),
                                 r.consumed),
                     r.consumed, "array_173c")

\* the shape of _parse_value_15, _parse_value_12 and _parse_fixed32
ParseFixedValue(data, pos, prefix, prefix_type, stat) ==
    IF pos + 6 > Len(data) THEN ReturnsNone(0)
    ELSE Returns(ParsedEntry(pos, prefix, prefix_type,
                             FixedValue(pos, prefix, unpack_I(Slice(data, pos + 2, pos + 6)),
                                        Slice(data, pos, pos + 6)),
                             6),
                 6, stat)

_parse_value_15(data, pos) == ParseFixedValue(data, pos, Prefix(21, 0), "VALUE_15", "value_1500")

_parse_value_12(data, pos) == ParseFixedValue(data, pos, Prefix(18, 0), "VALUE_12", "value_1200")

_parse_fixed32(data, pos) == ParseFixedValue(data, pos, Prefix(5, 2), "FIXED32", "fixed32_0502")

\* result |= (b & 0x7F) << shift, the result kept as two 21-bit halves
\* (the value is hi * 2^21 + lo): six groups of 7 bits do not fit 31 bits
VarintOr(result, b, consumed) ==
    IF consumed < 3
    THEN [ result EXCEPT !.lo = @ + (b % 128) * (128 ^ consumed) ]
    ELSE [ result EXCEPT !.hi = @ + (b % 128) * (128 ^ (consumed - 3)) ]

\* the loop of _read_varint
RECURSIVE VarintLoop(_, _, _, _)
VarintLoop(data, pos, result, consumed) ==
    IF ~(pos + consumed < Len(data))
    THEN [ value |-> result, consumed |-> consumed ]
    ELSE LET b == At(data, pos + consumed)
             result2 == VarintOr(result, b, consumed)
             consumed2 == consumed + 1
         IN  IF b < 128 \/ consumed2 > 5
             THEN [ value |-> result2, consumed |-> consumed2 ]
             ELSE VarintLoop(data, pos, result2, consumed2)

\* _read_varint
_read_varint(data, pos) == VarintLoop(data, pos, [ lo |-> 0, hi |-> 0 ], 0)

\* _parse_varint
_parse_varint(data, pos) ==
    IF pos + 3 > Len(data) THEN ReturnsNone(0)
    ELSE LET v == _read_varint(data, pos + 2)
             consumed == 2 + v.consumed
         IN  Returns(ParsedEntry(pos, Prefix(20, 5), "VARINT",
                                 [ value |-> v.value, raw |-> Slice(data, pos, pos + consumed) ],
                                 consumed),
                     consumed, "varint_1405")

\* _parse_type_ref
_parse_type_ref(data, pos) ==
    IF pos + 4 > Len(data) THEN ReturnsNone(0)
    ELSE Returns(ParsedEntry(pos, Prefix(16, 6), "TYPE_REF_10",
                             [ table_id |-> At(data, pos + 2),
                               extra |-> IF pos + 3 < Len(data) THEN At(data, pos + 3) ELSE 0 ],
                             4),
                 4, "type_ref_1006")

\* the shape of the eight _parse_prefix_XXXX handlers: a 2-byte value, and a
\* count only where the handler has a self.stats line (stat = "none" otherwise)
ParsePrefixValue(data, pos, prefix, prefix_type, stat) ==
    IF pos + 4 > Len(data) THEN ReturnsNone(0)
    ELSE Returns(ParsedEntry(pos, prefix, prefix_type,
                             [ value |-> unpack_H(Slice(data, pos + 2, pos + 4)) ], 4),
                 4, stat)

_parse_prefix_1809(data, pos) == ParsePrefixValue(data, pos, Prefix(24, 9), "PREFIX_1809", "prefix_1809")

_parse_prefix_1907(data, pos) == ParsePrefixValue(data, pos, Prefix(25, 7), "PREFIX_1907", "prefix_1907")

_parse_prefix_0c18(data, pos) == ParsePrefixValue(data, pos, Prefix(12, 24), "PREFIX_0C18", "none")

_parse_prefix_1013(data, pos) == ParsePrefixValue(data, pos, Prefix(16, 19), "UNKNOWN", "none")

_parse_prefix_1830(data, pos) == ParsePrefixValue(data, pos, Prefix(24, 48), "UNKNOWN", "none")

_parse_prefix_140e(data, pos) == ParsePrefixValue(data, pos, Prefix(20, 14), "UNKNOWN", "none")

_parse_prefix_1902Bad(data, pos) == ParsePrefixValue(data, pos, Prefix(25, 2), "UNKNOWN", "none")

_parse_prefix_1902(data, pos) == ParsePrefixValue(data, pos, Prefix(25, 2), "UNKNOWN", "prefix_1902")

_parse_prefix_16e1(data, pos) == ParsePrefixValue(data, pos, Prefix(22, 225), "UNKNOWN", "prefix_16e1")

\* the single-byte marker entries of _parse_entry
Marker(pos, b, name, value, stat) ==
    Returns(ParsedEntry(pos, b, "UNKNOWN", [ marker |-> name, value |-> value ], 1), 1, stat)

\* _parse_entry
_parse_entry(data, pos) ==
    IF pos >= Len(data) - 1 THEN ReturnsNone(0)
    ELSE
    LET b0 == At(data, pos)
        b1 == At(data, pos + 1)
    IN  IF b0 = 8 /\ b1 = 3 THEN _parse_table_ref(data, pos)
        ELSE IF b0 = 28 /\ b1 = 4 THEN _parse_extended_1c(data, pos)
        ELSE IF b0 = 23 /\ b1 = 60 THEN _parse_array_element(data, pos)
        ELSE IF b0 = 21 /\ b1 = 0 THEN _parse_value_15(data, pos)
        ELSE IF b0 = 18 /\ b1 = 0 THEN _parse_value_12(data, pos)
        ELSE IF b0 = 5 /\ b1 = 2 THEN _parse_fixed32(data, pos)
        ELSE IF b0 = 20 /\ b1 = 5 THEN _parse_varint(data, pos)
        ELSE IF b0 = 16 /\ b1 = 6 THEN _parse_type_ref(data, pos)
        ELSE IF b0 = 24 /\ b1 = 9 THEN _parse_prefix_1809(data, pos)
        ELSE IF b0 = 25 /\ b1 = 7 THEN _parse_prefix_1907(data, pos)
        ELSE IF b0 = 12 /\ b1 = 24 THEN _parse_prefix_0c18(data, pos)
        ELSE IF b0 = 16 /\ b1 = 19 THEN _parse_prefix_1013(data, pos)
        ELSE IF b0 = 24 /\ b1 = 48 THEN _parse_prefix_1830(data, pos)
        ELSE IF b0 = 20 /\ b1 = 14 THEN _parse_prefix_140e(data, pos)
        ELSE IF b0 = 25 /\ b1 = 2 THEN _parse_prefix_1902(data, pos)
        ELSE IF b0 = 22 /\ b1 = 225 THEN _parse_prefix_16e1(data, pos)
        ELSE IF b0 = MARKER_TRUE THEN Marker(pos, b0, "TRUE", PyInt(1), "0x6D")
        ELSE IF b0 = MARKER_FALSE THEN Marker(pos, b0, "FALSE", PyInt(0), "0xDB")
        ELSE IF b0 = MARKER_CD THEN Marker(pos, b0, "CD", None, "0xCD")
        ELSE ReturnsNone(1)

\* _find_first_table_ref
_find_first_table_ref(data) ==
    LET hits == { i \in 8..(Len(data) - 2) : At(data, i) = 8 /\ At(data, i + 1) = 3 }
    IN  IF hits = {} THEN 8 ELSE CHOOSE i \in hits : \A j \in hits : i <= j

\* "Categorize entries": the entries of the given prefix types, in order
RECURSIVE Categorize(_, _)
Categorize(ents, types) ==
    IF ents = <<>> THEN <<>>
    ELSE IF Head(ents).prefix_type \in types
    THEN << Head(ents).data >> \o Categorize(Tail(ents), types)
    ELSE Categorize(Tail(ents), types)

\* CompactBlock(header, preamble, entries, raw_data) after the categorisation
CompactBlock(hdr, pre, ents, data) ==
    [ header |-> hdr, preamble |-> pre, entries |-> ents, raw_data |-> data,
      table_refs |-> Categorize(ents, {"TABLE_REF"}),
      extended_values |-> Categorize(ents, {"EXTENDED_1C"}),
      array_elements |-> Categorize(ents, {"ARRAY_ELEM"}),
      fixed_values |-> Categorize(ents, {"VALUE_15", "VALUE_12", "FIXED32"}) ]

\* the while loop of parse (lines 326-334) from pos on, as a function of the
\* buffer: the entries appended, the bytes counted unknown, the exception
RECURSIVE ParseLoop(_, _)
ParseLoop(data, pos) ==
    IF ~(pos < Len(data) - 1)
    THEN [ entries |-> <<>>, unknown |-> 0, raised |-> "none" ]
    ELSE LET r == _parse_entry(data, pos)
         IN  IF r.raised # "none"
             THEN [ entries |-> <<>>, unknown |-> 0, raised |-> r.raised ]
             ELSE IF r.entry # None
             THEN LET rest == ParseLoop(data, pos + r.consumed)
                  IN  [ rest EXCEPT !.entries = << r.entry >> \o @ ]
             ELSE LET rest == ParseLoop(data, pos + 1)
                  IN  [ rest EXCEPT !.unknown = @ + 1 ]

-----------------------------------------------------------------------------
(* State *)

parseVars == << sav_data, truth, parsed >>

patchVars == << mem, out_file, ret, stdout, run, first_out >>

decodeVars == << raw_data, stats, parser, frame, results >>

vars == << pc, parseVars, patchVars, decodeVars >>

NoResult == [ status |-> "none" ]

\* the variables of unlock_capes when no call is running
PatchIdle ==
    /\ mem = MemInit
    /\ out_file = NoFile
    /\ ret = "none"
    /\ stdout = {}
    /\ run = 0
    /\ first_out = <<>>

\* the variables of parse_sav_blocks when it is not called
ParseIdle ==
    /\ sav_data = <<>>
    /\ truth = NoResult
    /\ parsed = NoResult

\* the locals of CompactFormatParser.parse before the call
NoFrame == [ header |-> None, preamble |-> <<>>, entries |-> <<>>, pos |-> 0, raised |-> "none" ]

\* the variables of the decoder when no CompactFormatParser exists
DecodeIdle ==
    /\ raw_data = <<>>
    /\ stats = InitStats
    /\ parser = 0
    /\ frame = NoFrame
    /\ results = <<>>

-----------------------------------------------------------------------------
(* Specification of unlock_capes: one call on every input file, step by    *)
(* step, then a call on the file it wrote                                  *)

InitPatch ==
    /\ pc = "parse"
    /\ \E p \in PatchParams :
          /\ sav_data = BuildSav(p)
          /\ truth = TruthOf(p)
    /\ parsed = NoResult
    /\ mem = MemInit
    /\ out_file = NoFile
    /\ ret = "none"
    /\ stdout = {}
    /\ run = 1
    /\ first_out = <<>>
    /\ DecodeIdle

RaiseBad(kind) ==
    /\ pc' = "raised"
    /\ ret' = kind
    /\ out_file' = [ written |-> TRUE, bytes |-> <<>> ]

\* an exception leaves unlock_capes: nothing has opened output_path yet
Raise(kind) ==
    /\ pc' = "raised"
    /\ ret' = kind
    /\ UNCHANGED out_file

AlreadyUnlockedBad(cape1_current, cape2_current) == FALSE

\* line 142
AlreadyUnlocked(cape1_current, cape2_current) == cape1_current = 1 /\ cape2_current = 1

\* line 109-116
UParse ==
    /\ pc = "parse"
    /\ UNCHANGED decodeVars
    /\ parsed' = parse_sav_blocks(sav_data)
    /\ IF parsed'.status = "ok"
       THEN /\ mem' = [ mem EXCEPT !.block1_compressed = parsed'.block1_compressed,
                                   !.block2_compressed = parsed'.block2_compressed,
                                   !.block3_raw = parsed'.block3_raw,
                                   !.block4_compressed = parsed'.block4_compressed,
                                   !.block5_raw = parsed'.block5_raw,
                                   !.region4_offset = parsed'.region4_offset_in_block3 ]
            /\ pc' = "decompress"
            /\ UNCHANGED << ret, out_file >>
       ELSE /\ Raise(parsed'.status)
            /\ UNCHANGED mem
    /\ UNCHANGED << sav_data, truth, stdout, run, first_out >>

\* lines 126-129
UDecompress ==
    /\ pc = "decompress"
    /\ UNCHANGED decodeVars
    /\ IF \/ CorruptStream(mem.block1_compressed)
          \/ CorruptStream(mem.block2_compressed)
          \/ CorruptStream(mem.block4_compressed)
       THEN /\ Raise("CorruptStream")
            /\ UNCHANGED mem
       ELSE /\ mem' = [ mem EXCEPT !.block1_decompressed = decompress(mem.block1_compressed),
                                   !.block2_decompressed = decompress(mem.block2_compressed),
                                   !.block4_decompressed = decompress(mem.block4_compressed) ]
            /\ pc' = "check"
            /\ UNCHANGED << ret, out_file >>
    /\ UNCHANGED << parseVars, stdout, run, first_out >>

\* lines 135-144
UCheck ==
    /\ pc = "check"
    /\ UNCHANGED decodeVars
    /\ IF RunLen(mem.block4_decompressed) <= CAPE2_OFFSET
       THEN /\ Raise("IndexError")
            /\ UNCHANGED << mem, stdout >>
       ELSE LET cape1_current == RunAt(mem.block4_decompressed, CAPE1_OFFSET)
                cape2_current == RunAt(mem.block4_decompressed, CAPE2_OFFSET)
            IN  /\ mem' = [ mem EXCEPT !.block4_data = mem.block4_decompressed,
                                       !.cape1_current = cape1_current,
                                       !.cape2_current = cape2_current ]
                /\ IF AlreadyUnlocked(cape1_current, cape2_current)
                   THEN /\ stdout' = stdout \cup { "Both capes already unlocked!" }
                        /\ ret' = "True"
                        /\ pc' = "done"
                   ELSE /\ pc' = "flip"
                        /\ UNCHANGED << ret, stdout >>
                /\ UNCHANGED out_file
    /\ UNCHANGED << parseVars, run, first_out >>

\* lines 147-148
UFlip ==
    /\ pc = "flip"
    /\ UNCHANGED decodeVars
    /\ mem' = [ mem EXCEPT !.block4_data = RunSet(RunSet(mem.block4_data, CAPE1_OFFSET, 1),
                                                  CAPE2_OFFSET, 1) ]
    /\ pc' = "recompress"
    /\ UNCHANGED << parseVars, out_file, ret, stdout, run, first_out >>

\* lines 153-155
URecompress ==
    /\ pc = "recompress"
    /\ UNCHANGED decodeVars
    /\ mem' = [ mem EXCEPT !.block1_recompressed = compress_lzss_lazy(mem.block1_decompressed),
                           !.block2_recompressed = compress_lzss_lazy(mem.block2_decompressed),
                           !.block4_recompressed = compress_lzss_lazy(mem.block4_data) ]
    /\ pc' = "patch_size"
    /\ UNCHANGED << parseVars, out_file, ret, stdout, run, first_out >>

\* lines 163-170
UPatchSize ==
    /\ pc = "patch_size"
    /\ UNCHANGED decodeVars
    /\ mem' = [ mem EXCEPT !.block3_raw =
                  PatchRegion4Size(mem.block3_raw, mem.region4_offset, Len(mem.block4_recompressed)) ]
    /\ pc' = "patch_checksum"
    /\ UNCHANGED << parseVars, out_file, ret, stdout, run, first_out >>

\* lines 174-179; the unpack of line 174 raises when Block 3 ends inside the gap
UPatchChecksum ==
    /\ pc = "patch_checksum"
    /\ UNCHANGED decodeVars
    /\ IF Len(Slice(mem.block3_raw, mem.region4_offset + 9, mem.region4_offset + 13)) # 4
       THEN /\ Raise("struct.error")
            /\ UNCHANGED mem
       ELSE /\ mem' = [ mem EXCEPT !.block3_raw =
                          PatchRegion4Checksum(mem.block3_raw, mem.region4_offset,
                                               adler32(mem.block4_recompressed)) ]
            /\ pc' = "headers"
            /\ UNCHANGED << ret, out_file >>
    /\ UNCHANGED << parseVars, stdout, run, first_out >>

\* lines 182-192
UHeaders ==
    /\ pc = "headers"
    /\ UNCHANGED decodeVars
    /\ mem' = [ mem EXCEPT !.remaining_after_block2_header =
                  Remaining(mem.block2_recompressed, mem.block3_raw,
                            mem.block4_recompressed, mem.block5_raw) ]
    /\ pc' = "write"
    /\ UNCHANGED << parseVars, out_file, ret, stdout, run, first_out >>

\* lines 195-211
UWrite ==
    /\ pc = "write"
    /\ UNCHANGED decodeVars
    /\ out_file' = [ written |-> TRUE, bytes |-> Assemble(mem) ]
    /\ first_out' = IF run = 1 THEN Assemble(mem) ELSE first_out
    /\ stdout' = stdout \cup { "Capes unlocked!" }
    /\ ret' = "True"
    /\ pc' = "done"
    /\ UNCHANGED << parseVars, mem, run >>

\* unlock_capes again, on the file the call before wrote, to a new output path
Rerun ==
    /\ pc = "done"
    /\ UNCHANGED decodeVars
    /\ out_file.written
    /\ run < MaxRuns
    /\ sav_data' = out_file.bytes
    /\ parsed' = NoResult
    /\ mem' = MemInit
    /\ out_file' = NoFile
    /\ ret' = "none"
    /\ stdout' = {}
    /\ run' = run + 1
    /\ pc' = "parse"
    /\ UNCHANGED << truth, first_out >>

\* unlock_capes on the long input file, after the calls on another file
PatchLongFile ==
    /\ pc \in {"done", "raised"}
    /\ UNCHANGED decodeVars
    /\ run > 1
    /\ truth.p.b4 # LongBlock4Stream
    /\ \E p \in LongParams :
          /\ sav_data' = BuildSav(p)
          /\ truth' = TruthOf(p)
    /\ parsed' = NoResult
    /\ mem' = MemInit
    /\ out_file' = NoFile
    /\ ret' = "none"
    /\ stdout' = {}
    /\ run' = 1
    /\ first_out' = <<>>
    /\ pc' = "parse"

NextPatch ==
    \/ UParse
    \/ UDecompress
    \/ UCheck
    \/ UFlip
    \/ URecompress
    \/ UPatchSize
    \/ UPatchChecksum
    \/ UHeaders
    \/ UWrite
    \/ Rerun
    \/ PatchLongFile

SpecPatch == InitPatch /\ [][NextPatch]_vars

-----------------------------------------------------------------------------
(* Specification of the parse: every built file is parsed once *)

InitParse ==
    /\ pc = "start"
    /\ \E p \in BuildParams :
          /\ sav_data = BuildSav(p)
          /\ truth = TruthOf(p)
    /\ parsed = NoResult
    /\ PatchIdle
    /\ DecodeIdle

Parse ==
    /\ pc = "start"
    /\ UNCHANGED decodeVars
    /\ parsed' = parse_sav_blocks(sav_data)
    /\ pc' = "parsed"
    /\ UNCHANGED << sav_data, truth, patchVars >>

NextParse == Parse

SpecParse == InitParse /\ [][NextParse]_vars

-----------------------------------------------------------------------------
(* Input buffers of the decoder: an 8-byte header, then records            *)

\* the 8-byte header 01 00 80 00 00 00 80 00
CompactHeaderBytes == << 1, 0, 128, 0, 0, 0, 128, 0 >>

\* 01 00 80 00 00 00 80 00 08 03 05 02 15 00 AA BB CC DD 6D
SyntheticPayload ==
    CompactHeaderBytes \o << 8, 3, 5, 2 >> \o << 21, 0, 170, 187, 204, 221 >> \o << 109 >>

\* one record of every shape the decoder tells apart, and an unknown byte
Pieces ==
    { << 8, 3, 5, 2 >>, << 8, 3, 200, 1 >>,
      << 28, 4, 8, 7 >>, << 28, 4, 10, 1, 2 >>, << 28, 4, 36, 1, 2 >>,
      << 28, 4, 33, 1, 2, 3, 4, 5, 6 >>, << 28, 4, 99, 1, 2 >>,
      << 28, 4, 36, 5, 2, 1, 2, 3, 4 >>,
      << 23, 60, 0, 1, 2, 3, 4 >>, << 23, 60, 8, 9 >>, << 23, 60, 26, 1, 2 >>,
      << 21, 0, 170, 187, 204, 221 >>, << 18, 0, 1, 0, 0, 128 >>, << 5, 2, 1, 2, 3, 4 >>,
      << 20, 5, 1 >>, << 20, 5, 129, 1 >>, << 20, 5, 128, 128, 128, 128, 128, 128, 1 >>,
      << 16, 6, 5, 0 >>,
      << 24, 9, 1, 2 >>, << 25, 7, 1, 2 >>, << 12, 24, 1, 2 >>, << 16, 19, 1, 2 >>,
      << 24, 48, 1, 2 >>, << 20, 14, 1, 2 >>, << 25, 2, 1, 2 >>, << 22, 225, 1, 2 >>,
      << 109 >>, << 219 >>, << 205 >>,
      << 0 >> }

\* what follows the first record
Followers ==
    { << 8, 3, 5, 2 >>, << 21, 0, 170, 187, 204, 221 >>, << 25, 2, 1, 2 >>,
      << 109 >>, << 0 >>, << 0, 0 >> }

\* the records of a buffer: one of Pieces, then up to n - 1 of Followers
RECURSIVE Streams(_)
Streams(n) ==
    IF n = 1 THEN Pieces
    ELSE Streams(n - 1)
           \cup { s \o f : s \in Streams(n - 1), f \in Followers }

\* data without its last c bytes
CutEnd(data, c) == Slice(data, 0, Len(data) - c)

\* the buffers handed to parse
Buffers ==
    { SyntheticPayload }
      \cup { CutEnd(CompactHeaderBytes \o s, c) : s \in Streams(MaxPieces), c \in 0..MaxCut }

-----------------------------------------------------------------------------
(* Specification of the decoder: parse calls on one buffer, the loop of    *)
(* parse taken one iteration at a time; a further call is made on the same *)
(* CompactFormatParser or on a new one                                     *)

InitDecode ==
    /\ pc = "call"
    /\ raw_data \in Buffers
    /\ stats = InitStats
    /\ parser = 1
    /\ frame = NoFrame
    /\ results = <<>>
    /\ ParseIdle
    /\ PatchIdle

\* lines 310-324: header, preamble, pos = preamble_end
ParseStart ==
    /\ pc = "call"
    /\ LET hdr == CompactHeader_parse(raw_data, 0)
           preamble_end == _find_first_table_ref(raw_data)
       IN  IF hdr.status # "ok"
           THEN /\ pc' = "raised"
                /\ frame' = [ frame EXCEPT !.raised = hdr.status ]
           ELSE /\ pc' = "loop"
                /\ frame' = [ header |-> hdr,
                              preamble |-> Slice(raw_data, 8, preamble_end),
                              entries |-> <<>>,
                              pos |-> preamble_end,
                              raised |-> "none" ]
    /\ UNCHANGED << raw_data, stats, parser, results, parseVars, patchVars >>

\* lines 326-330: an iteration in which _parse_entry returns an entry
LoopEntry ==
    /\ pc = "loop"
    /\ frame.pos < Len(raw_data) - 1
    /\ LET r == _parse_entry(raw_data, frame.pos)
       IN  /\ r.raised = "none"
           /\ r.entry # None
           /\ frame' = [ frame EXCEPT !.entries = Append(@, r.entry),
                                      !.pos = @ + r.consumed ]
           /\ stats' = Count(stats, r.stat)
    /\ UNCHANGED << pc, raw_data, parser, results, parseVars, patchVars >>

\* lines 331-334: an iteration in which _parse_entry returns None
LoopUnknown ==
    /\ pc = "loop"
    /\ frame.pos < Len(raw_data) - 1
    /\ LET r == _parse_entry(raw_data, frame.pos)
       IN  /\ r.raised = "none"
           /\ r.entry = None
           /\ frame' = [ frame EXCEPT !.pos = @ + 1 ]
           /\ stats' = Count(stats, "unknown")
    /\ UNCHANGED << pc, raw_data, parser, results, parseVars, patchVars >>

\* an iteration in which _parse_entry raises
LoopRaise ==
    /\ pc = "loop"
    /\ frame.pos < Len(raw_data) - 1
    /\ LET r == _parse_entry(raw_data, frame.pos)
       IN  /\ r.raised # "none"
           /\ pc' = "raised"
           /\ frame' = [ frame EXCEPT !.raised = r.raised ]
    /\ UNCHANGED << raw_data, stats, parser, results, parseVars, patchVars >>

\* lines 336-355: the loop is over, the block is built and returned
ParseReturn ==
    /\ pc = "loop"
    /\ ~(frame.pos < Len(raw_data) - 1)
    /\ results' = Append(results,
                         [ parser |-> parser,
                           block |-> CompactBlock(frame.header, frame.preamble,
                                                  frame.entries, raw_data),
                           stats |-> stats ])
    /\ pc' = "returned"
    /\ UNCHANGED << raw_data, stats, frame, parser, parseVars, patchVars >>

\* parser.parse(data) again, on the same CompactFormatParser
ParseAgain ==
    /\ pc = "returned"
    /\ Len(results) < MaxCalls
    /\ frame' = NoFrame
    /\ pc' = "call"
    /\ UNCHANGED << raw_data, stats, parser, results, parseVars, patchVars >>

\* CompactFormatParser().parse(data): the next call is on a new parser
ParseWithNewParser ==
    /\ pc = "returned"
    /\ Len(results) < MaxCalls
    /\ stats' = InitStats
    /\ parser' = parser + 1
    /\ frame' = NoFrame
    /\ pc' = "call"
    /\ UNCHANGED << raw_data, results, parseVars, patchVars >>

NextDecode ==
    \/ ParseStart
    \/ LoopEntry
    \/ LoopUnknown
    \/ LoopRaise
    \/ ParseReturn
    \/ ParseAgain
    \/ ParseWithNewParser

SpecDecode == InitDecode /\ [][NextDecode]_vars

\* the steps of one parse call: a call that has started runs on to its
\* return or its exception (a further call need never be made)
ParseSteps == ParseStart \/ LoopEntry \/ LoopUnknown \/ LoopRaise \/ ParseReturn

SpecDecodeFair == SpecDecode /\ WF_vars(ParseSteps)

-----------------------------------------------------------------------------
(* Claims about parse_sav_blocks, checked under SpecParse *)

ParsedOk == pc = "parsed" /\ parsed.status = "ok"

\* the five returned blocks, concatenated in order
FiveBlocks ==
    parsed.block1_compressed \o parsed.block2_compressed \o parsed.block3_raw
    \o parsed.block4_compressed \o parsed.block5_raw

\* the returned blocks with the two block headers the parse skips (file bytes
\* 0..43 and the 44 bytes before Block 2's data) put back in their places
FiveBlocksAndHeaders ==
    Slice(sav_data, 0, HEADER_SIZE) \o parsed.block1_compressed
    \o Slice(sav_data, block2_header_offset(sav_data), block2_data_offset(sav_data))
    \o parsed.block2_compressed \o parsed.block3_raw
    \o parsed.block4_compressed \o parsed.block5_raw

\* C1 as stated: whenever four region headers are found, the five blocks the
\* parse returns, concatenated in order, are the original file bytes.
C1_FiveBlocksAreTheFile == ParsedOk => FiveBlocks = sav_data

\* C1 amended: whenever four region headers are found, Block 1's 44-byte header,
\* block 1, Block 2's 44-byte header, block 2, block 3, block 4 and block 5,
\* concatenated in order, are the original file bytes (no gap, no overlap); the
\* five returned blocks alone are the file without the two headers.
C1_BlocksWithHeadersAreTheFile ==
    ParsedOk => /\ FiveBlocksAndHeaders = sav_data
                /\ Len(FiveBlocks) = Len(sav_data) - 2 * HEADER_SIZE

\* a successful parse with every block non-empty
C1_Witness ==
    /\ ParsedOk
    /\ truth.p.b1 # <<>>
    /\ parsed.block1_compressed # <<>> /\ parsed.block2_compressed # <<>>
    /\ parsed.block4_compressed # <<>> /\ parsed.block5_raw # <<>>
    /\ FiveBlocksAndHeaders = sav_data

\* no filler position of the built Block 3 passes the signature test
FillerClean == \A o \in truth.filler : ~IsRegionSignature(sav_data, o)

\* the built file holds four well-formed regions and correct block sizes
WellFormed == truth.p.flaw = "none"

\* C2: for a Block 3 of 4 well-formed regions separated by filler in which no
\* position matches the signature, the scan returns exactly the 4 (offset,
\* size) pairs of the built headers, in order, whatever the filler lengths.
C2_ScanFindsTheFourRegions ==
    (pc = "parsed" /\ WellFormed /\ FillerClean)
        => /\ parsed.status = "ok"
           /\ parsed.regions = truth.regions
           /\ \A i \in 1..3 : parsed.regions[i][1] < parsed.regions[i + 1][1]

\* four regions found behind fillers of different lengths, one of them empty,
\* with region 2's payload holding a pattern that passes the region test
C2_Witness ==
    /\ pc = "parsed" /\ WellFormed /\ FillerClean
    /\ truth.p.fill[1] # truth.p.fill[2] /\ truth.p.fill[3] = 0 /\ truth.filler # {}
    /\ truth.p.embed
    /\ parsed.regions = truth.regions

\* both compressed-size fields lie inside the buffer, so the scan runs
SizeFieldsReadable ==
    Len(block1_size_field(sav_data)) = 4 /\ Len(block2_size_field(sav_data)) = 4

\* C3: when the scan ends with fewer than four region headers found, the parse
\* raises an error carrying the number found and returns no block.
C3_FewRegionsIsAnError ==
    (pc = "parsed" /\ SizeFieldsReadable /\ Len(block3_regions(sav_data)) < 4)
        => /\ parsed.status = "ValueError"
           /\ parsed.found = Len(block3_regions(sav_data))
           /\ (truth.p.flaw \in {"few3", "few1"} /\ FillerClean
                 => parsed.found = RegionCount(truth.p))
           /\ DOMAIN parsed \cap { "block1_compressed", "block2_compressed", "block3_raw",
                                   "block4_compressed", "block5_raw" } = {}

\* a file with three region headers: the error reports 3
C3_Witness ==
    /\ pc = "parsed" /\ truth.p.flaw = "few3" /\ FillerClean
    /\ parsed.status = "ValueError" /\ parsed.found = 3

\* a declared size that runs past the end of the buffer: Block 1's or Block 2's
\* compressed size, or region 4's size taken as Block 4's length
RunsPastEnd ==
    \/ ~SizeFieldsReadable
    \/ HEADER_SIZE + block1_compressed_size(sav_data) > Len(sav_data)
    \/ block2_data_offset(sav_data) + block2_compressed_size(sav_data) > Len(sav_data)
    \/ /\ Len(block3_regions(sav_data)) >= 4
       /\ block3_regions(sav_data)[4][1] + REGION_HEADER + REGION_GAP
            + block3_regions(sav_data)[4][2] > Len(sav_data)

\* C4: whenever a declared size or derived offset runs past the end of the
\* buffer the parse fails; it never returns truncated or empty blocks.
C4_PastEndIsAnError == (pc = "parsed" /\ RunsPastEnd) => parsed.status # "ok"

\* offset in the file of the header of region 4, as the scan found it
Region4Header == parsed.regions[4][1]

\* the 24-bit size the header of region 4 declares, read from the file
Region4DeclaredSize == unpack_size24(Slice(sav_data, Region4Header + 1, Region4Header + 4))

\* what C15 says of the blocks of a successful parse
BlockBoundaries ==
    LET block3_start == block3_offset(sav_data)
        block4_start == block3_start + Len(parsed.block3_raw)
    IN  /\ Len(parsed.block3_raw) = Region4Header + 8 + 5 - block3_start
        /\ parsed.block3_raw = Slice(sav_data, block3_start, Region4Header + 8 + 5)
        /\ Len(parsed.block4_compressed) = Region4DeclaredSize
        /\ parsed.block4_compressed = Slice(sav_data, block4_start, block4_start + Region4DeclaredSize)
        /\ parsed.block5_raw = SliceFrom(sav_data, block4_start + Len(parsed.block4_compressed))

\* C15: on a successful parse Block 3's length is region4_offset + 8 + 5 -
\* block3_start (it ends right after region 4's header and 5-byte trailer),
\* Block 4 starts immediately after Block 3 and its length is the 24-bit size
\* region 4 declares, and Block 5 is every byte after Block 4
C15_BlockBoundariesFollowRegion4 == ParsedOk => BlockBoundaries

\* the file offsets of region i as the scan accepted it: header, payload, trailer
RegionSpan(i) ==
    parsed.regions[i][1] .. (parsed.regions[i][1] + 8 + parsed.regions[i][2] + 5 - 1)

\* C16: every region header the scan accepts has byte 0 = 0x01, bytes 4..7 =
\* 00 00 80 00 and a 24-bit size strictly between 0 and 50000; after a match
\* at offset o with size s the next accepted header lies at an offset >=
\* o + 8 + s + 5, so a pattern that matches the signature inside an accepted
\* region's header, payload or trailer is never reported as a region
C16_AcceptedHeadersAndJumpAhead ==
    (pc = "parsed" /\ parsed.status \in {"ok", "ValueError"}) =>
        /\ \A i \in 1..Len(parsed.regions) :
             LET o == parsed.regions[i][1]
                 s == parsed.regions[i][2]
             IN  /\ At(sav_data, o) = 1
                 /\ Slice(sav_data, o + 4, o + 8) = << 0, 0, 128, 0 >>
                 /\ s = At(sav_data, o + 1) + 256 * At(sav_data, o + 2) + 65536 * At(sav_data, o + 3)
                 /\ 0 < s /\ s < 50000
        /\ \A i \in 1..(Len(parsed.regions) - 1) :
             parsed.regions[i + 1][1] >= parsed.regions[i][1] + 8 + parsed.regions[i][2] + 5
        /\ \A i, j \in 1..Len(parsed.regions) :
             i # j => parsed.regions[j][1] \notin RegionSpan(i)

\* four regions accepted, and inside the payload of one of them a pattern
\* that passes the whole region test and is not reported
C16_Witness ==
    /\ ParsedOk
    /\ truth.p.embed
    /\ \E i \in 1..4 : \E q \in RegionSpan(i) :
          /\ q > parsed.regions[i][1]
          /\ q + 8 <= Len(sav_data)
          /\ At(sav_data, q) = 1
          /\ Slice(sav_data, q + 4, q + 8) = << 0, 0, 128, 0 >>
          /\ At(sav_data, q + 1) > 0
          /\ \A j \in 1..4 : parsed.regions[j][1] # q

-----------------------------------------------------------------------------
(* Claims about unlock_capes, checked under SpecPatch *)

\* the call wrote its output file
Written == pc = "done" /\ out_file.written

\* offset in the output file of Block 3, and of Region 4's header
OutBlock3Offset == HEADER_SIZE + Len(mem.block1_recompressed) + HEADER_SIZE + Len(mem.block2_recompressed)

OutRegion4Offset == OutBlock3Offset + mem.region4_offset

\* C5: after a patch that changes Block 4's compressed length, in the output's
\* Block 3 the 3-byte size field at region4_offset+1 is the length of the new
\* compressed Block 4 and the 4-byte field at region4_offset+9 is its checksum.
C5_SizeAndChecksumFollowBlock4 ==
    (Written /\ Len(mem.block4_recompressed) # Len(mem.block4_compressed))
        => /\ unpack_size24(Slice(out_file.bytes, OutRegion4Offset + 1, OutRegion4Offset + 4))
                = Len(mem.block4_recompressed)
           /\ unpack_I(Slice(out_file.bytes, OutRegion4Offset + 9, OutRegion4Offset + 13))
                = adler32(mem.block4_recompressed)

\* a patch that made Block 4 longer and rewrote both fields
C5_Witness ==
    /\ Written /\ Len(mem.block4_recompressed) > Len(mem.block4_compressed)
    /\ unpack_size24(Slice(out_file.bytes, OutRegion4Offset + 1, OutRegion4Offset + 4))
         = Len(mem.block4_recompressed)
    /\ truth.p.chk = "right"

AlreadyReported == "Both capes already unlocked!" \in stdout

\* C6 as stated: a patch applied to the output of a first patch yields the
\* first patch's bytes, and a patch whose target bytes already hold the value
\* succeeds, returns the original bytes and reports "already applied".
C6_SecondPatchYieldsSameBytes ==
    /\ (run = 2 /\ pc \in {"done", "raised"})
          => (pc = "done" /\ out_file.written /\ out_file.bytes = first_out)
    /\ (pc = "done" /\ AlreadyReported)
          => (ret = "True" /\ out_file.written /\ out_file.bytes = sav_data)

\* C6 amended: when both target bytes already hold 0x01 the call succeeds
\* (returns True), reports that the capes are already unlocked and writes no
\* output file at all; a call on the output of a first patch, when that
\* output re-parses, is such a call: it reads the first patch's bytes and
\* leaves no second file.
C6_AlreadyAppliedWritesNothing ==
    /\ (pc \in {"done", "raised"} /\ mem.cape1_current = 1 /\ mem.cape2_current = 1)
          => (pc = "done" /\ ret = "True" /\ AlreadyReported /\ ~out_file.written)
    /\ (run = 2 /\ pc \in {"done", "raised"})
          => /\ sav_data = first_out
             /\ ~out_file.written
             /\ parsed.status = "ok"
                   => /\ pc = "done" /\ ret = "True" /\ AlreadyReported
                      /\ mem.cape1_current = 1 /\ mem.cape2_current = 1

\* the second call, on the file the first call wrote, has returned
C6_Witness ==
    /\ run = 2 /\ pc = "done" /\ AlreadyReported /\ ~out_file.written
    /\ sav_data = first_out /\ first_out # <<>>

\* C7: when the parse or a decompression fails the call aborts and the output
\* file is never created: every failure comes before the one write, and the
\* file exists only after a call that returned True.
C7_NoOutputOnFailure ==
    /\ pc = "raised" => (~out_file.written /\ ret \in {"struct.error", "ValueError", "CorruptStream", "IndexError"})
    /\ out_file.written => (pc = "done" /\ ret = "True")
    /\ pc \notin {"done", "raised"} => ret = "none"

\* a call that failed in the decompression of Block 4
C7_Witness ==
    /\ pc = "raised" /\ ret = "CorruptStream" /\ ~out_file.written
    /\ parsed.status = "ok" /\ CorruptStream(mem.block4_compressed)
    /\ ~CorruptStream(mem.block1_compressed) /\ ~CorruptStream(mem.block2_compressed)

\* the total is computed: the header builder is about to get it, or got it
RemainingComputed == pc = "write" \/ Written

\* C8 as stated: the total passed to the Block 2 header builder is Block 2's new
\* compressed length + len(Block 3) + len(Block 5) + Block 4's new compressed
\* length, and nothing else.
C8_RemainingIsSumOfFourLengths ==
    RemainingComputed
        => mem.remaining_after_block2_header
             = Len(mem.block2_recompressed) + Len(mem.block3_raw) + Len(mem.block5_raw)
               + Len(mem.block4_recompressed)

\* C8 amended: the total is 44 (the size of Block 2's header) + Block 2's new
\* compressed length + len(Block 3) + len(Block 5) + Block 4's new compressed
\* length: every byte of the output from the start of Block 2's header on.
C8_RemainingCountsTheHeaderToo ==
    RemainingComputed
        => /\ mem.remaining_after_block2_header
                = HEADER_SIZE + Len(mem.block2_recompressed) + Len(mem.block3_raw)
                  + Len(mem.block5_raw) + Len(mem.block4_recompressed)
           /\ Written => mem.remaining_after_block2_header
                           = Len(out_file.bytes) - HEADER_SIZE - Len(mem.block1_recompressed)

\* a written output whose Blocks 2 and 4 changed length
C8_Witness ==
    /\ Written
    /\ Len(mem.block2_recompressed) # Len(mem.block2_compressed)
    /\ Len(mem.block4_recompressed) # Len(mem.block4_compressed)
    /\ mem.remaining_after_block2_header
         = HEADER_SIZE + Len(mem.block2_recompressed) + Len(mem.block3_raw)
           + Len(mem.block5_raw) + Len(mem.block4_recompressed)

\* the compressed payloads of Blocks 1 and 2 in the input file and in the
\* output file, each found through the file's own block headers
InBlock1 == Slice(sav_data, HEADER_SIZE, HEADER_SIZE + block1_compressed_size(sav_data))

InBlock2 ==
    Slice(sav_data, block2_data_offset(sav_data),
          block2_data_offset(sav_data) + block2_compressed_size(sav_data))

OutBlock1 ==
    Slice(out_file.bytes, HEADER_SIZE, HEADER_SIZE + block1_compressed_size(out_file.bytes))

OutBlock2 ==
    Slice(out_file.bytes, block2_data_offset(out_file.bytes),
          block2_data_offset(out_file.bytes) + block2_compressed_size(out_file.bytes))

\* the stream is the one the compressor produces for its own content
Canonical(stream) == compress_lzss_lazy(decompress(stream)) = stream

\* C20 as stated: the edits touch only Block 4, so Blocks 1 and 2 are not
\* recompressed and their compressed payload bytes in the output are
\* identical to the input's.
C20_UntouchedBlocksKeepTheirBytes ==
    Written => (OutBlock1 = InBlock1 /\ OutBlock2 = InBlock2)

\* C20 amended: a patch decompresses and recompresses Blocks 1, 2 and 4
\* whatever the edits touch.  The output's Block 1 and Block 2 payloads are
\* the compressor's encoding of the input's decompressed payloads: they
\* decompress to the same content as the input's, and are byte-identical to
\* the input's exactly when the input's stream is the one the compressor
\* produces.
C20_EveryBlockIsRecompressed ==
    /\ pc \in {"patch_size", "patch_checksum", "headers", "write"} \/ Written
          => /\ mem.block1_recompressed = compress_lzss_lazy(decompress(InBlock1))
             /\ mem.block2_recompressed = compress_lzss_lazy(decompress(InBlock2))
    /\ Written
          => /\ OutBlock1 = mem.block1_recompressed
             /\ OutBlock2 = mem.block2_recompressed
             /\ decompress(OutBlock1) = decompress(InBlock1)
             /\ decompress(OutBlock2) = decompress(InBlock2)
             /\ (OutBlock1 = InBlock1) <=> Canonical(InBlock1)
             /\ (OutBlock2 = InBlock2) <=> Canonical(InBlock2)

\* a written output whose Block 1 and Block 2 payloads differ from the
\* input's although the only edit is in Block 4
C20_Witness ==
    /\ Written
    /\ OutBlock1 # InBlock1 /\ OutBlock2 # InBlock2
    /\ Len(OutBlock1) < Len(InBlock1)
    /\ decompress(OutBlock1) = decompress(InBlock1)
    /\ mem.block4_data # mem.block4_decompressed

\* Blocks 3, 4 and 5 of the output file: Block 3 starts where the output's
\* own headers put it and has the length of the input's Block 3, Block 4
\* has the length of the recompressed Block 4, Block 5 is the rest
OutBlock3 ==
    Slice(out_file.bytes, block3_offset(out_file.bytes),
          block3_offset(out_file.bytes) + Len(parsed.block3_raw))

OutBlock4 ==
    Slice(out_file.bytes, block3_offset(out_file.bytes) + Len(parsed.block3_raw),
          block3_offset(out_file.bytes) + Len(parsed.block3_raw) + Len(mem.block4_recompressed))

OutBlock5 ==
    SliceFrom(out_file.bytes,
              block3_offset(out_file.bytes) + Len(parsed.block3_raw) + Len(mem.block4_recompressed))

\* offsets in Block 3 of Region 4's size bytes and checksum bytes
Region4Fields ==
    ((mem.region4_offset + 1)..(mem.region4_offset + 3))
        \cup ((mem.region4_offset + 9)..(mem.region4_offset + 12))

\* C21: in the output of a patch, Block 3 has the same length as in the
\* input and differs from the input's Block 3 at most in the 3 size bytes at
\* region4_offset+1..+3 and the 4 checksum bytes at region4_offset+9..+12;
\* Block 5 is byte-identical to the input's Block 5.
C21_OnlySizeAndChecksumChange ==
    Written
        => /\ Len(out_file.bytes)
                = HEADER_SIZE + Len(OutBlock1) + HEADER_SIZE + Len(OutBlock2)
                  + Len(parsed.block3_raw) + Len(mem.block4_recompressed) + Len(parsed.block5_raw)
           /\ Len(OutBlock3) = Len(parsed.block3_raw)
           /\ \A i \in 0..(Len(parsed.block3_raw) - 1) :
                 At(OutBlock3, i) # At(parsed.block3_raw, i) => i \in Region4Fields
           /\ OutBlock4 = mem.block4_recompressed
           /\ OutBlock5 = parsed.block5_raw

\* a written output whose Block 3 differs from the input's in a size byte
\* and in a checksum byte, with a Block 5 that is not empty
C21_Witness ==
    /\ Written
    /\ parsed.block5_raw # <<>>
    /\ \E i \in (mem.region4_offset + 1)..(mem.region4_offset + 3) :
          At(OutBlock3, i) # At(parsed.block3_raw, i)
    /\ \E i \in (mem.region4_offset + 9)..(mem.region4_offset + 12) :
          At(OutBlock3, i) # At(parsed.block3_raw, i)
    /\ OutBlock5 = parsed.block5_raw

\* the bytes of the output file: written, or assembled next (nothing can
\* fail between the last patch of Block 3 and the write)
OutputBytes == IF Written THEN out_file.bytes ELSE Assemble(mem)

\* parse_sav_blocks on the output file
Reparsed == parse_sav_blocks(OutputBytes)

\* C22: the output of every successful patch is itself a valid container for
\* parse_sav_blocks: re-parsing it finds region 4 at the same offset in
\* Block 3 and returns Block 4 equal to the recompressed Block 4 bytes, for
\* every recompressed length, lengths of 50000 or more included.
C22_OutputReparses ==
    (pc = "write" \/ Written)
        => /\ Reparsed.status = "ok"
           /\ Reparsed.region4_offset_in_block3 = mem.region4_offset
           /\ Reparsed.block4_compressed = mem.block4_recompressed

-----------------------------------------------------------------------------
(* Claims about CompactFormatParser, checked under SpecDecode *)

\* the first parse call on the synthetic payload has returned
SyntheticDecoded ==
    /\ pc = "returned"
    /\ raw_data = SyntheticPayload
    /\ Len(results) = 1

\* C9: decoding the 19-byte payload 01 00 80 00 00 00 80 00 08 03 05 02 15 00
\* AA BB CC DD 6D yields exactly 3 entries in order, a TABLE_REF with table_id
\* 0x05 and property 0x02, a VALUE_15 with value 0xDDCCBBAA and a boolean-true
\* marker, with an empty preamble and zero unclassified bytes
C9_SyntheticPayloadGivesThreeEntries ==
    SyntheticDecoded =>
        LET block == results[1].block
            e == block.entries
        IN  /\ Len(e) = 3
            /\ e[1].prefix_type = "TABLE_REF"
            /\ e[1].data.table_id = 5
            /\ e[1].data.property_id = 2
            /\ e[2].prefix_type = "VALUE_15"
            /\ e[2].data.value = [ lo |-> 48042, hi |-> 56780 ]
            /\ e[3].data = [ marker |-> "TRUE", value |-> PyInt(1) ]
            /\ block.preamble = <<>>
            /\ results[1].stats.unknown = 0

\* C10: decoding the same buffer twice in succession, two parse calls on the
\* same CompactFormatParser included, gives the same entries and the same
\* statistics counts both times: the counts of the first call do not add to
\* the counts reported after the second
C10_DecodingTwiceGivesTheSame ==
    \A i, j \in 1..Len(results) :
        /\ results[i].block.entries = results[j].block.entries
        /\ results[i].stats = results[j].stats

\* the 2-byte prefixes the decoder knows
KnownPrefixes ==
    { << 8, 3 >>, << 28, 4 >>, << 23, 60 >>, << 21, 0 >>, << 18, 0 >>, << 5, 2 >>,
      << 20, 5 >>, << 16, 6 >>, << 24, 9 >>, << 25, 7 >>, << 12, 24 >>, << 16, 19 >>,
      << 24, 48 >>, << 20, 14 >>, << 25, 2 >>, << 22, 225 >> }

\* the byte at the cursor starts no known 2-byte prefix and is no marker byte
UnknownByteAtCursor ==
    /\ pc = "loop"
    /\ frame.pos < Len(raw_data) - 1
    /\ << At(raw_data, frame.pos), At(raw_data, frame.pos + 1) >> \notin KnownPrefixes
    /\ At(raw_data, frame.pos) \notin {109, 219, 205}

\* data without the byte at offset i
RemoveByte(data, i) == Slice(data, 0, i) \o SliceFrom(data, i + 1)

\* an entry as it reads when everything before it is one byte shorter
ShiftEntry(e) ==
    [ e EXCEPT !.offset = @ - 1,
               !.data = IF "offset" \in DOMAIN @ THEN [ @ EXCEPT !.offset = @ - 1 ] ELSE @ ]

\* C11: when the byte at the cursor starts no known 2-byte prefix and is not
\* one of the marker bytes, the decoder does not fail: the cursor advances by
\* exactly 1, the unclassified count grows by exactly 1 and no other count
\* changes, no entry is emitted for the byte, and the records that follow are
\* decoded exactly as they are in the buffer without the unknown byte
C11_UnknownByteIsSkipped ==
    [][ UnknownByteAtCursor =>
          /\ pc' = "loop"
          /\ frame'.pos = frame.pos + 1
          /\ frame'.entries = frame.entries
          /\ stats' = [ stats EXCEPT !.unknown = @ + 1 ]
          /\ LET with == ParseLoop(raw_data, frame.pos + 1)
                 without == ParseLoop(RemoveByte(raw_data, frame.pos), frame.pos)
             IN  /\ with.raised = without.raised
                 /\ with.unknown = without.unknown
                 /\ Len(with.entries) = Len(without.entries)
                 /\ \A i \in 1..Len(with.entries) :
                        ShiftEntry(with.entries[i]) = without.entries[i] ]_vars

\* an unknown byte was skipped at the cursor and a record after it was decoded
C11_Witness ==
    /\ pc = "returned"
    /\ Len(results) = 1
    /\ results[1].stats.unknown = 1
    /\ results[1].block.entries # <<>>
    /\ At(raw_data, 8) = 0
    /\ results[1].block.entries[1].offset = 9

\* an iteration of the main loop that goes on to the next
LoopIteration == pc = "loop" /\ pc' = "loop" /\ frame' # frame

\* C12: the main loop terminates on every buffer: each iteration strictly
\* advances the cursor, by the size of the entry it decoded (at least 1) or by
\* 1 for an unclassified byte; the loop stops as soon as the cursor is at or
\* beyond length - 1; so no entry ever starts at the final byte of the buffer
C12_LoopTerminates ==
    /\ [][ LoopIteration =>
             /\ frame'.pos > frame.pos
             /\ \/ /\ Len(frame'.entries) = Len(frame.entries) + 1
                   /\ frame'.entries[Len(frame'.entries)].size >= 1
                   /\ frame'.pos = frame.pos + frame'.entries[Len(frame'.entries)].size
                \/ /\ frame'.entries = frame.entries
                   /\ frame'.pos = frame.pos + 1 ]_vars
    /\ [][ (pc = "loop" /\ frame.pos >= Len(raw_data) - 1) =>
             (pc' = "returned" /\ frame' = frame) ]_vars
    /\ [](\A i \in 1..Len(frame.entries) : frame.entries[i].offset < Len(raw_data) - 1)
    /\ (pc = "call") ~> (pc \in {"returned", "raised"})

\* a parse has returned with the cursor on the final byte, a marker byte that
\* was not decoded, after decoding the records before it
C12_Witness ==
    /\ pc = "returned"
    /\ frame.pos = Len(raw_data) - 1
    /\ At(raw_data, frame.pos) \in {109, 219, 205}
    /\ frame.entries # <<>>
    /\ frame.entries[Len(frame.entries)].offset + frame.entries[Len(frame.entries)].size = frame.pos

\* C13: in every decode result the entries are in stream order and never
\* overlap: consecutive entries e, e' have e.offset + e.size <= e'.offset, the
\* first entry starts at or after the preamble boundary and the last entry
\* has offset + size <= the length of the buffer
C13_EntriesInOrderNoOverlap ==
    \A k \in 1..Len(results) :
        LET block == results[k].block
            e == block.entries
        IN  /\ \A i \in 1..(Len(e) - 1) : e[i].offset + e[i].size <= e[i + 1].offset
            /\ e # <<>> =>
                 /\ e[1].offset >= 8 + Len(block.preamble)
                 /\ e[Len(e)].offset + e[Len(e)].size <= Len(block.raw_data)

\* a result with a variable-length EXTENDED_1C entry ended by the record after
\* it, which is the last entry and ends with the buffer
C13_Witness ==
    /\ Len(results) = 1
    /\ LET e == results[1].block.entries
       IN  /\ Len(e) = 2
           /\ e[1].prefix_type = "EXTENDED_1C"
           /\ e[1].data.subtype = 36
           /\ e[1].offset + e[1].size = e[2].offset
           /\ e[2].offset + e[2].size = Len(raw_data)

\* C14: a VARINT entry (prefix 14 05) consumes 2 + n bytes, n the number of
\* varint bytes read: the bytes up to and including the first one without the
\* continuation (high) bit; n is at most 5 for every input, those in which
\* every byte has the continuation bit set included
C14_VarintReadsAtMostFiveBytes ==
    \A k \in 1..Len(results) :
        \A i \in 1..Len(results[k].block.entries) :
            LET e == results[k].block.entries[i]
                n == e.size - 2
            IN  e.prefix_type = "VARINT" =>
                  /\ Len(e.data.raw) = 2 + n
                  /\ n >= 1
                  /\ n <= 5
                  /\ \A j \in 3..(Len(e.data.raw) - 1) : e.data.raw[j] >= 128

\* the first bytes of the known 2-byte prefixes, and the marker bytes
LeadAndMarkerBytes == { p[1] : p \in KnownPrefixes } \cup {109, 219, 205}

\* the number of bytes from offset i on, at most limit, before the first byte
\* of LeadAndMarkerBytes (or the end of the buffer)
RECURSIVE BytesBeforeStop(_, _, _)
BytesBeforeStop(data, i, limit) ==
    IF limit = 0 \/ i >= Len(data) \/ At(data, i) \in LeadAndMarkerBytes
    THEN 0
    ELSE 1 + BytesBeforeStop(data, i + 1, limit - 1)

\* C17: an EXTENDED_1C entry (prefix 1C 04) with enough bytes remaining
\* consumes 4 bytes for subtype 0x08, 5 bytes for subtypes 0x0A, 0x0B and any
\* unlisted subtype, and 3 + k bytes for subtypes 0x21, 0x23, 0x24, 0x25, k
\* (0 <= k <= 5) being the number of bytes before the first byte that is the
\* lead byte of a known 2-byte prefix or a marker byte; the total is always
\* between 3 and 8
C17_ExtendedSizes ==
    \A n \in 1..Len(results) :
        \A i \in 1..Len(results[n].block.entries) :
            LET e == results[n].block.entries[i]
                left == Len(raw_data) - e.offset
            IN  e.prefix_type = "EXTENDED_1C" =>
                  /\ 3 <= e.size /\ e.size <= 8
                  /\ (e.data.subtype = 8 /\ left >= 4) => e.size = 4
                  /\ (e.data.subtype \in {33, 35, 36, 37})
                        => e.size = 3 + BytesBeforeStop(raw_data, e.offset + 3, 5)
                  /\ (e.data.subtype \notin {8, 33, 35, 36, 37} /\ left >= 5) => e.size = 5

\* the decoder has failed on an ARRAY_ELEM record at the cursor
FailedOnArrayElement ==
    /\ pc = "raised"
    /\ frame.header # None
    /\ Slice(raw_data, frame.pos, frame.pos + 2) = << 23, 60 >>

\* C18: an ARRAY_ELEM entry (prefix 17 3C) with enough bytes remaining
\* consumes 7 bytes with a 4-byte little-endian value for element type 0x00,
\* 4 bytes with a 1-byte value for type 0x08 and 5 bytes with a 2-byte
\* little-endian value for every other type; the total is always between 3
\* and 7 and the value is read only from bytes inside the buffer, whatever
\* number of bytes remains
C18_ArrayElementSizes ==
    /\ ~FailedOnArrayElement
    /\ \A n \in 1..Len(results) :
         \A i \in 1..Len(results[n].block.entries) :
            LET e == results[n].block.entries[i]
                left == Len(raw_data) - e.offset
                b == [ j \in 0..6 |-> IF e.offset + j < Len(raw_data)
                                       THEN At(raw_data, e.offset + j) ELSE 0 ]
            IN  e.prefix_type = "ARRAY_ELEM" =>
                  /\ 3 <= e.size /\ e.size <= 7
                  /\ e.offset + e.size <= Len(raw_data)
                  /\ (e.data.element_type = 0 /\ left >= 7) =>
                        /\ e.size = 7
                        /\ e.data.value = [ lo |-> b[3] + 256 * b[4], hi |-> b[5] + 256 * b[6] ]
                  /\ (e.data.element_type = 8 /\ left >= 4) =>
                        /\ e.size = 4
                        /\ e.data.value = PyInt(b[3])
                  /\ (e.data.element_type \notin {0, 8} /\ left >= 5) =>
                        /\ e.size = 5
                        /\ e.data.value = PyInt(b[3] + 256 * b[4])

\* the eight fixed 2-byte-value prefixes 18 09, 19 07, 0C 18, 10 13, 18 30,
\* 14 0E, 19 02, 16 E1, each with the name a count of its own would have
PrefixStat ==
    (6153 :> "prefix_1809") @@ (6407 :> "prefix_1907") @@ (3096 :> "prefix_0c18")
    @@ (4115 :> "prefix_1013") @@ (6192 :> "prefix_1830") @@ (5134 :> "prefix_140e")
    @@ (6402 :> "prefix_1902") @@ (5857 :> "prefix_16e1")

\* the four of them for which the parser keeps a count
CountedPrefixes == {6153, 6407, 6402, 5857}

\* the number of entries of the first result decoded with the prefix
EntriesWith(prefix) ==
    Cardinality({ i \in 1..Len(results[1].block.entries) :
                    results[1].block.entries[i].prefix = prefix })

\* the eight prefixes consume exactly 4 bytes each
FixedPrefixesTakeFour ==
    \A i \in 1..Len(results[1].block.entries) :
        results[1].block.entries[i].prefix \in DOMAIN PrefixStat
            => results[1].block.entries[i].size = 4

\* the sum of all the counts of a statistics record, the unknown bytes left out
CountedEntries(st) ==
    st.table_refs + st.extended_1c04 + st.array_173c + st.value_1500 + st.value_1200
    + st.fixed32_0502 + st.varint_1405 + st.type_ref_1006 + st.prefix_1809
    + st.prefix_1907 + st.prefix_1902 + st.prefix_16e1
    + st.markers["0x6D"] + st.markers["0xDB"] + st.markers["0xCD"]

\* C19 as stated: each of the eight fixed 2-byte-value prefixes consumes
\* exactly 4 bytes and, after one decode, has a count of its own in the
\* statistics equal to the number of entries decoded with that prefix
C19_EveryFixedPrefixIsCounted ==
    Len(results) >= 1 =>
        /\ FixedPrefixesTakeFour
        /\ \A p \in DOMAIN PrefixStat :
             /\ PrefixStat[p] \in DOMAIN results[1].stats
             /\ results[1].stats[PrefixStat[p]] = EntriesWith(p)

\* C19 amended: each of the eight prefixes consumes exactly 4 bytes; after one
\* decode the four prefixes 18 09, 19 07, 19 02 and 16 E1 have a count of
\* their own equal to the number of entries decoded with the prefix, while the
\* statistics have no count for 0C 18, 10 13, 18 30 and 14 0E: their entries
\* are counted nowhere, not as unknown bytes either
C19_FourFixedPrefixesAreCounted ==
    Len(results) >= 1 =>
        /\ FixedPrefixesTakeFour
        /\ \A p \in CountedPrefixes : results[1].stats[PrefixStat[p]] = EntriesWith(p)
        /\ \A p \in DOMAIN PrefixStat \ CountedPrefixes :
             PrefixStat[p] \notin DOMAIN results[1].stats
        /\ CountedEntries(results[1].stats)
             = Len(results[1].block.entries)
               - (EntriesWith(3096) + EntriesWith(4115) + EntriesWith(6192) + EntriesWith(5134))

\* a decode of a 0C 18 record, which no count records, followed by a 19 02
\* record, which is counted
C19_Witness ==
    /\ Len(results) = 1
    /\ Len(results[1].block.entries) = 2
    /\ results[1].block.entries[1].prefix = 3096
    /\ results[1].block.entries[2].prefix = 6402
    /\ results[1].stats.prefix_1902 = 1
    /\ CountedEntries(results[1].stats) = 1
    /\ results[1].stats.unknown = 0

\* C23: for every buffer of at least 8 bytes decode returns a result instead
\* of raising; a record with a recognised prefix whose payload the end of the
\* buffer cuts off is emitted as a shortened entry of 3 bytes with no value
\* (EXTENDED_1C and ARRAY_ELEM) or skipped as one unclassified byte, whatever
\* number of bytes remains after the prefix
C23_DecodeNeverRaises ==
    Len(raw_data) >= 8 =>
        /\ pc # "raised"
        /\ frame.raised = "none"
        /\ \A i \in 1..Len(frame.entries) :
              LET e == frame.entries[i]
              IN  (e.prefix_type \in {"EXTENDED_1C", "ARRAY_ELEM"} /\ e.data.value = None)
                    => (e.size = 3 /\ e.offset + 3 <= Len(raw_data))

====
